---- MODULE Spec2Model ----
(***************************************************************************)
(* Model of the Streamlit front end of ai-journalist: the entry script     *)
(* frontend/app.py and the page frontend/pages/1_mentions.py, which run in *)
(* one Streamlit process and therefore share st.session_state and the      *)
(* st.cache_data store.  Each decorated fetch_mentions owns one function   *)
(* cache in that store; fetch_mentions.clear() empties one function cache, *)
(* st.cache_data.clear() empties all of them.                              *)
(*                                                                         *)
(* Text is modelled as a sequence of one-character strings so that the     *)
(* substring and case-folding operations of the code are computed.  A      *)
(* value an operator uses more than once is passed to a helper operator as *)
(* a parameter.                                                            *)
(***************************************************************************)
EXTENDS Integers, Sequences, FiniteSets, TLC

VARIABLES
    appCache,   \* st.cache_data store of app.py's fetch_mentions
    pageCache,  \* st.cache_data store of 1_mentions.py's fetch_mentions
    dbPresent,  \* backend: mentions that exist
    dbFlagged,  \* backend: ids of the articles that are flagged (reason "urgent")
    backend,    \* backend: whether it honours the filter parameters, whether it is up
    script,     \* the script of the current page: "app" or "page"
    ui,         \* widget values of the current script
    view,       \* what the last script run rendered
    lastOp,     \* history: what the last user interaction did, until time passes
    win,        \* history: per cache key, the GET requests since the window opened
    arg,        \* input of the pure-function specifications
    res         \* result of the pure-function specifications

vars == <<appCache, pageCache, dbPresent, dbFlagged, backend, script, ui,
          view, lastOp, win, arg, res>>

(***************************************************************************)
(* Bounds of the model.                                                    *)
(***************************************************************************)
TickStep == 30

NumMentions == 2

MaxRows == 3

MaxPageRows == 21

MaxPageReq == 6

\* bound of the response specification: the records of one response
MaxData == 3

\* bound of the source specification: the characters of a link's host
MaxHost == 5

(***************************************************************************)
(* Program constants.                                                      *)
(***************************************************************************)
TTL == 60

PerPageOptions == {5, 10, 20}

DefaultPerPage == 10

DefaultLimit == 25

(***************************************************************************)
(* Text.                                                                   *)
(***************************************************************************)
None == <<"None">>

Empty == <<>>

Lower(c) ==
    CASE c = "A" -> "a"
      [] c = "B" -> "b"
      [] OTHER -> c

\* pandas Series.str.contains(pat, case=False, na=False): pat is a regular
\* expression searched anywhere in the text; "." matches any character, a
\* letter matches itself in either case, a missing value never matches.
CharMatch(p, c) == p = "." \/ Lower(p) = Lower(c)

str_contains(text, pat) ==
    /\ text # None
    /\ \E i \in 0..(Len(text) - Len(pat)) :
          \A j \in 1..Len(pat) : CharMatch(pat[j], text[i + j])

Max(a, b) == IF a >= b THEN a ELSE b

Min(a, b) == IF a <= b THEN a ELSE b

MinOf(S) == CHOOSE i \in S : \A j \in S : i <= j

(***************************************************************************)
(* app.py, "Apply filters": the three client-side filters, each skipped    *)
(* when its widget value is falsy.                                         *)
(***************************************************************************)
KeepSentiment(row, f) == f.sentiment = {} \/ row.sentiment \in f.sentiment

KeepSource(row, f) == f.source_q = Empty \/ str_contains(row.source, f.source_q)

KeepQuery(row, f) ==
    \/ f.query = Empty
    \/ str_contains(row.title, f.query)
    \/ str_contains(row.summary, f.query)

\* the rows after the first, used by the variant below
DropFirst(rows) == IF rows = <<>> THEN rows ELSE Tail(rows)

\* a variant that also drops the first row it keeps
apply_filters_drop_first(rows, f) ==
    DropFirst(SelectSeq(rows, LAMBDA r : KeepSentiment(r, f) /\ KeepSource(r, f)
                                            /\ KeepQuery(r, f)))

apply_filters(rows, f) ==
    SelectSeq(SelectSeq(SelectSeq(rows, LAMBDA r : KeepSentiment(r, f)),
                        LAMBDA r : KeepSource(r, f)),
              LAMBDA r : KeepQuery(r, f))

(***************************************************************************)
(* app.py, "Pagination controls".                                          *)
(***************************************************************************)
\* Python's floor division for a positive divisor
FloorDiv(a, b) == IF a >= 0 THEN a \div b ELSE -((-a + b - 1) \div b)

\* a variant that rounds the number of pages down
max_page_floor(n, per_page) == Max(1, FloorDiv(n, per_page))

max_page(n, per_page) == Max(1, FloorDiv(n - 1, per_page) + 1)

\* st.number_input(min_value=1, max_value=max_page, value=1): the widget
\* keeps the entered number inside [min_value, max_value].
number_input(req, lo, hi) == Max(lo, Min(req, hi))

\* the value of the Page widget when the user asks for page req of n rows
page_number(n, per_page, req) == number_input(req, 1, max_page(n, per_page))

\* DataFrame.iloc[start:end]: the rows at 0-based positions start..end-1 that exist
iloc(rows, start, end) ==
    SubSeq(rows, Min(start, Len(rows)) + 1, Min(end, Len(rows)))

page_start(page, per_page) == (page - 1) * per_page

page_df(rows, per_page, page) ==
    iloc(rows, page_start(page, per_page), page_start(page, per_page) + per_page)

paginate(rows, per_page, req) ==
    [max_page |-> max_page(Len(rows), per_page),
     page |-> page_number(Len(rows), per_page, req),
     rows |-> page_df(rows, per_page, page_number(Len(rows), per_page, req))]

(***************************************************************************)
(* The backend (an external collaborator): a fixed catalogue of mentions,  *)
(* of which dbPresent exist and dbFlagged are flagged.                     *)
(***************************************************************************)
Mentions == 1..NumMentions

SrcA == <<"a">>

SrcB == <<"b">>

Urgent == <<"urgent">>

UnknownLower == <<"unknown">>

UnknownUpper == <<"Unknown">>

Untitled == <<"(untitled)">>

NoSummary == <<"(No summary available)">>

HttpPrefix == <<"http:", "/", "/">>

HttpsPrefix == <<"https:", "/", "/">>

Odd(m) == m % 2 = 1

MentionSource(m) == IF Odd(m) THEN SrcA ELSE SrcB

MentionSentiment(m) == IF Odd(m) THEN "positive" ELSE "negative"

MentionTitle(m) == IF Odd(m) THEN <<"A", "b">> ELSE <<"b", "a">>

MentionLink(m) == HttpsPrefix \o <<"w", "w", "w", ".">> \o MentionSource(m) \o <<"/", "x">>

\* an odd mention has a prose summary, an even one has its link as summary
MentionSummary(m) == IF Odd(m) THEN <<"a", "B">> ELSE MentionLink(m)

MentionRisk(m) == IF Odd(m) THEN 2 ELSE 7

\* every mention of the catalogue is a mention of the one article 42
ArticleId(m) == 42

\* one element of the JSON array GET /api/mentions answers with
RawMention(m, flaggedSet) ==
    [id |-> m,
     article_id |-> ArticleId(m),
     article |-> [title |-> MentionTitle(m), link |-> MentionLink(m),
                  source |-> MentionSource(m)],
     summary |-> MentionSummary(m),
     sentiment |-> MentionSentiment(m),
     sentiment_confidence |-> 9,
     risk_score |-> MentionRisk(m),
     flagged |-> ArticleId(m) \in flaggedSet,
     flag_reason |-> IF ArticleId(m) \in flaggedSet THEN Urgent ELSE Empty]

\* is text[i..j] one of the parts the commas of text delimit?
IsPart(text, i, j) ==
    /\ j >= i - 1
    /\ i = 1 \/ text[i - 1] = ","
    /\ j = Len(text) \/ text[j + 1] = ","
    /\ \A k \in i..j : text[k] # ","

\* the parts of a comma-joined text
SplitComma(text) ==
    {SubSeq(text, p[1], p[2]) :
        p \in {q \in (1..(Len(text) + 1)) \X (0..Len(text)) : IsPart(text, q[1], q[2])}}

\* does the backend keep mention m under the query parameters?
BackendKeeps(m, params, flaggedSet, mode) ==
    \/ mode = "ignore"
    \/ /\ ("source" \in DOMAIN params => MentionSource(m) \in SplitComma(params.source))
       /\ ("sentiment" \in DOMAIN params => MentionSentiment(m) = params.sentiment)
       /\ ("flagged" \in DOMAIN params =>
              (ArticleId(m) \in flaggedSet) = params.flagged)

\* the mentions the backend selects, in id order
BackendSelects(params, present, flaggedSet, mode) ==
    SelectSeq([i \in 1..NumMentions |-> i],
              LAMBDA m : m \in present /\ BackendKeeps(m, params, flaggedSet, mode))

\* the first `limit` of the selected mentions, as JSON objects
FirstRows(selected, limit, flaggedSet) ==
    [j \in 1..Min(limit, Len(selected)) |-> RawMention(selected[j], flaggedSet)]

\* the body of a 200 answer to GET /api/mentions
BackendRows(params, present, flaggedSet, mode) ==
    FirstRows(BackendSelects(params, present, flaggedSet, mode), params.limit, flaggedSet)

(***************************************************************************)
(* Python dictionaries.                                                    *)
(***************************************************************************)
\* d.get(k, default)
Get(d, k, default) == IF k \in DOMAIN d THEN d[k] ELSE default

\* d after the assignments d[k] = upd[k]
Assign(d, upd) ==
    [k \in DOMAIN d \cup DOMAIN upd |-> IF k \in DOMAIN upd THEN upd[k] ELSE d[k]]

EmptyDict == [k \in {} |-> Empty]

\* a JSON null where the code expects an object: Python's None, which has no
\* .get
NullArticle == [None |-> TRUE]

\* a JSON null where the code expects a number: Python's None, which the
\* arithmetic and the numeric formats of the scripts reject
NullNumber == -1

Truthy(text) == text # None /\ text # Empty

StartsWith(text, prefix) ==
    /\ Len(text) >= Len(prefix)
    /\ SubSeq(text, 1, Len(prefix)) = prefix

(***************************************************************************)
(* 1_mentions.py, domain_from_url.                                         *)
(***************************************************************************)
\* where the "//" that follows the scheme can start
NetlocStarts(url) ==
    {i \in 1..(Len(url) - 1) :
        /\ url[i] = "/" /\ url[i + 1] = "/"
        /\ (i = 1 \/ (i = 2 /\ url[1] \notin {"/", "?", "#"}))}

NetlocStops(url, s) == {i \in s..Len(url) : url[i] \in {"/", "?", "#"}}

NetlocFrom(url, s) ==
    SubSeq(url, s, IF NetlocStops(url, s) = {} THEN Len(url)
                   ELSE MinOf(NetlocStops(url, s)) - 1)

\* urlparse(url).netloc: the text between the "//" that follows the scheme
\* and the next "/", "?" or "#"
Netloc(url) ==
    IF NetlocStarts(url) = {} THEN Empty
    ELSE NetlocFrom(url, MinOf(NetlocStarts(url)) + 2)

LowerText(text) == [i \in 1..Len(text) |-> Lower(text[i])]

NotIn(text, chars) == {i \in 1..Len(text) : text[i] \notin chars}

\* str.lstrip(chars): drop leading characters while they are in the set chars
lstrip(text, chars) ==
    IF NotIn(text, chars) = {} THEN Empty
    ELSE SubSeq(text, MinOf(NotIn(text, chars)), Len(text))

domain_from_url(url) ==
    IF ~Truthy(url) THEN UnknownLower
    ELSE lstrip(LowerText(Netloc(url)), {"w", "."})

(***************************************************************************)
(* Normalisation loops of the two fetch_mentions functions.                *)
(***************************************************************************)
\* app.py lines 58-68, with article the value of line 60
app_normalize_with(d, article) ==
    Assign(d,
      [title |-> Get(article, "title", Untitled),
       url |-> Get(article, "link", Empty),
       source |-> Get(article, "source", UnknownUpper),
       summary |-> Get(d, "summary", Empty),
       sentiment |-> Get(d, "sentiment", "neutral"),
       risk_score |-> Get(d, "risk_score", 0),
       id |-> Get(d, "id", 0),
       article_id |-> Get(d, "article_id", 0)])

app_normalize(d) == app_normalize_with(d, Get(d, "article", EmptyDict))

\* does the loop body raise on d?  Line 61 calls article.get, which a null
\* "article" does not have (AttributeError); the d.get calls never raise
app_raises(d) == Get(d, "article", EmptyDict) = NullArticle

\* 1_mentions.py lines 44-59, with the values of lines 44, 46, 47 and 48
page_normalize_with(m, article, link, src, raw_summary) ==
    Assign(m,
      [title |-> Get(article, "title", Untitled),
       link |-> link,
       source |-> IF Truthy(src) THEN src ELSE domain_from_url(link),
       summary |-> IF StartsWith(raw_summary, HttpPrefix)
                      \/ StartsWith(raw_summary, HttpsPrefix)
                   THEN NoSummary ELSE raw_summary,
       raw_summary |-> raw_summary,
       sentiment |-> Get(m, "sentiment", "neutral"),
       sentiment_confidence |-> Get(m, "sentiment_confidence", 0),
       risk_score |-> Get(m, "risk_score", 0),
       id |-> Get(m, "id", 0),
       article_id |-> Get(m, "article_id", 0),
       flagged |-> Get(m, "flagged", FALSE),
       flag_reason |-> Get(m, "flag_reason", Empty),
       flagged_at |-> Get(m, "flagged_at", None)])

page_normalize(m) ==
    page_normalize_with(m, Get(m, "article", EmptyDict),
                        Get(Get(m, "article", EmptyDict), "link", Empty),
                        Get(Get(m, "article", EmptyDict), "source", None),
                        Get(m, "summary", Empty))

\* does the loop body raise on m?  Line 45 calls article.get and line 50
\* raw_summary.startswith, which a null does not have (AttributeError)
page_raises(m) ==
    \/ Get(m, "article", EmptyDict) = NullArticle
    \/ Get(m, "summary", Empty) = None

(***************************************************************************)
(* Arguments of the fetch_mentions calls.  An optional argument is a set:  *)
(* {} when it is not passed (None), {v} when it is passed as v.            *)
(***************************************************************************)
Val(opt) == CHOOSE x \in opt : TRUE

\* app.py line 140: fetch_mentions(limit=50)
AppKey50 == [limit |-> 50, source |-> {}, sentiment |-> {}, flagged |-> {}]

\* 1_mentions.py line 151: fetch_mentions(limit=100)
PageKey100 == [limit |-> 100, sources |-> {}, sentiment |-> {}, flagged |-> {}]

\* 1_mentions.py line 217
PageKey(limit, sources, sentiment, flagged) ==
    [limit |-> limit, sources |-> {sources}, sentiment |-> {sentiment},
     flagged |-> {flagged}]

\* str.lower() of the selectbox options
lower_word(w) ==
    CASE w = "Positive" -> "positive"
      [] w = "Negative" -> "negative"
      [] w = "Neutral" -> "neutral"
      [] w = "All" -> "all"
      [] OTHER -> w

\* ",".join(sources)
JoinComma(texts) ==
    LET F[i \in 0..Len(texts)] ==
            IF i = 0 THEN Empty
            ELSE IF i = 1 THEN texts[1]
            ELSE F[i - 1] \o <<",">> \o texts[i]
    IN F[Len(texts)]

\* "if sentiment and sentiment != 'All'" and "if flagged is not None",
\* the same lines in both functions
WithSentiment(p, key) ==
    IF key.sentiment # {} /\ Val(key.sentiment) \notin {"", "All"}
    THEN Assign(p, [sentiment |-> lower_word(Val(key.sentiment))]) ELSE p

WithFlagged(p, key) ==
    IF key.flagged # {} THEN Assign(p, [flagged |-> Val(key.flagged)]) ELSE p

\* app.py lines 46-52
app_params(key) ==
    WithFlagged(WithSentiment(
        IF key.source # {} /\ Truthy(Val(key.source))
        THEN Assign([limit |-> key.limit], [source |-> Val(key.source)])
        ELSE [limit |-> key.limit], key), key)

\* 1_mentions.py lines 27-33
page_params(key) ==
    WithFlagged(WithSentiment(
        IF key.sources # {} /\ Val(key.sources) # <<>>
        THEN Assign([limit |-> key.limit], [source |-> JoinComma(Val(key.sources))])
        ELSE [limit |-> key.limit], key), key)

(***************************************************************************)
(* The bodies of the two fetch_mentions functions.  `o` is the outcome of  *)
(* the GET: "ok" (a 200 with the JSON array) or "fail" (connection error,  *)
(* timeout, non-2xx status, unparsable body).  Both bodies catch the       *)
(* failure and RETURN the empty list.                                      *)
(***************************************************************************)
\* app.py lines 57-69
app_rows(data) == [i \in 1..Len(data) |-> app_normalize(data[i])]

\* app.py lines 56-72, with data the value of r.json(): an exception of
\* the loop is caught by line 70 like one of the GET, and line 72 returns []
app_fetch_data(data) ==
    IF \E i \in 1..Len(data) : app_raises(data[i])
    THEN [ret |-> <<>>, failed |-> TRUE]
    ELSE [ret |-> app_rows(data), failed |-> FALSE]

\* app.py lines 45-72
app_fetch_body(key, o, env) ==
    IF o = "ok"
    THEN app_fetch_data(BackendRows(app_params(key), env.present, env.flagged, env.mode))
    ELSE [ret |-> <<>>, failed |-> TRUE]

\* 1_mentions.py lines 42-60
page_rows(data) == [i \in 1..Len(data) |-> page_normalize(data[i])]

\* 1_mentions.py lines 41-66, with data the value of response.json(): an
\* exception of the loop is caught by line 64, and line 66 returns []
page_fetch_data(data) ==
    IF \E i \in 1..Len(data) : page_raises(data[i])
    THEN [ret |-> <<>>, failed |-> TRUE]
    ELSE [ret |-> page_rows(data), failed |-> FALSE]

\* 1_mentions.py lines 26-66
page_fetch_body(key, o, env) ==
    IF o = "ok"
    THEN page_fetch_data(BackendRows(page_params(key), env.present, env.flagged, env.mode))
    ELSE [ret |-> <<>>, failed |-> TRUE]

(***************************************************************************)
(* @st.cache_data(ttl=60): the value a call returns is stored under the    *)
(* call's arguments and returned, without running the body, to every call  *)
(* with the same arguments made less than ttl seconds after it was stored. *)
(* An entry records: val, the stored return value; age, the seconds since  *)
(* it was stored (the clock minus the time of storing: all a call can      *)
(* observe of either); failed, whether the body that produced it had       *)
(* caught a failure (in 1_mentions.py this is the st.error element the     *)
(* cache replays); and the history field pre, which holds "kwingest" when  *)
(* a keyword ingest has succeeded since the entry was stored.              *)
(***************************************************************************)
CacheHit(cache, key) == key \in DOMAIN cache /\ cache[key].age < TTL

Put(f, k, v) == (k :> v) @@ f

\* history: exactly the calls of one key made less than TTL after the call
\* that opened the window belong to it
win_update(w, key, net) ==
    IF key \in DOMAIN w /\ w[key].age < TTL
    THEN Put(w, key, [age |-> w[key].age, gets |-> Min(w[key].gets + net, 2)])
    ELSE Put(w, key, [age |-> 0, gets |-> net])

\* a variant without the decorator: every call runs the body
cached_call_undecorated(cache, key, body) ==
    [cache |-> cache, ret |-> body.ret, failed |-> body.failed, net |-> 1, age |-> 0]

\* one call of a cached function: body is what running the function returns
cached_call(cache, key, body) ==
    IF CacheHit(cache, key)
    THEN [cache |-> cache, ret |-> cache[key].val, failed |-> cache[key].failed,
          net |-> 0, age |-> cache[key].age]
    ELSE [cache |-> Put(cache, key, [val |-> body.ret, age |-> 0,
                                     failed |-> body.failed, pre |-> {}]),
          ret |-> body.ret, failed |-> body.failed, net |-> 1, age |-> 0]

\* The state a script run threads through its calls: the two function
\* caches and the history of the calls.  An event says which function was
\* called, whether the call issued a GET (net = 1) and how old the returned
\* entry was.
LogEvent(fn, c) == [fn |-> fn, net |-> c.net, age |-> c.age]

\* the run's state and the call's result after the call c of function fn
Called(fn, st, key, c) ==
    [st |-> IF fn = "app"
            THEN [st EXCEPT !.app = c.cache,
                            !.winApp = win_update(@, key, c.net),
                            !.log = @ \cup {LogEvent(fn, c)}]
            ELSE [st EXCEPT !.page = c.cache,
                            !.winPage = win_update(@, key, c.net),
                            !.log = @ \cup {LogEvent(fn, c)}],
     ret |-> c.ret, failed |-> c.failed, net |-> c.net]

app_fetch_mentions(st, key, o, env) ==
    Called("app", st, key, cached_call(st.app, key, app_fetch_body(key, o, env)))

page_fetch_mentions(st, key, o, env) ==
    Called("page", st, key, cached_call(st.page, key, page_fetch_body(key, o, env)))

\* history: a mutation of kind k succeeded while these entries were stored
MarkPre(cache, k) ==
    [key \in DOMAIN cache |-> [cache[key] EXCEPT !.pre = @ \cup ({k} \cap {"kwingest"})]]

NoEntries == [k \in {} |-> 0]

\* app.py: fetch_mentions.clear() empties the cache of app.py's function
app_clear(st, k) ==
    [st EXCEPT !.app = NoEntries, !.winApp = NoEntries, !.page = MarkPre(@, k)]

\* 1_mentions.py: st.cache_data.clear() empties every function cache
cache_data_clear(st, k) ==
    [st EXCEPT !.app = NoEntries, !.winApp = NoEntries,
               !.page = NoEntries, !.winPage = NoEntries]

(***************************************************************************)
(* Texts the scripts show.  A message is a sequence of parts; a part that  *)
(* comes from the backend or from an exception is carried unchanged.       *)
(***************************************************************************)
BackendMessage == <<"quota exceeded">>

\* str(e) of the exception a failed request raises
HttpErrorText == <<"str(e)">>

TimeoutText == <<"str(e)">>

Msg(prefix, detail) == <<prefix>> \o detail

(***************************************************************************)
(* One run of app.py's Mentions tab from the fetch on (lines 139-262),     *)
(* with no button pressed.  uiA holds the sidebar widgets; a widget whose  *)
(* options changed is a new widget and takes its default.                  *)
(***************************************************************************)
AppDefaults == [opts |-> {}, sentiment |-> {}, source_q |-> Empty, query |-> Empty]

\* line 152
SentimentOptions(rows) == {rows[i].sentiment : i \in 1..Len(rows)} \ {""}

\* lines 141-143: _fetch_error is set by the body only, so only in a run
\* that executed it
AppErrs(f) ==
    IF f.net = 1 /\ f.failed
    THEN {Msg("Failed to fetch mentions: ", HttpErrorText)} ELSE {}

\* lines 153-155: the widgets' values when the sentiment options are `options`
AppWidgets(uiA, options) ==
    [opts |-> options,
     sentiment |-> IF uiA.opts = options THEN uiA.sentiment ELSE options,
     source_q |-> uiA.source_q, query |-> uiA.query]

\* lines 144-146
AppStopped(msgs) ==
    [script |-> "app", stopped |-> TRUE, listing |-> <<>>, filtered |-> <<>>,
     stats |-> [total |-> 0], served |-> {}, msgs |-> msgs]

\* lines 169-262: the first page of the filtered DataFrame
AppListing(filtered, msgs) ==
    [script |-> "app", stopped |-> FALSE,
     listing |-> paginate(filtered, DefaultPerPage, 1).rows,
     filtered |-> filtered, stats |-> [total |-> Len(filtered)],
     served |-> {}, msgs |-> msgs]

\* lines 141-262, after the fetch f of line 140
AppRender(f, uiA, shown) ==
    IF f.ret = <<>>
    THEN [st |-> f.st, ui |-> AppDefaults,
          view |-> AppStopped(shown \cup AppErrs(f) \cup {<<"No mentions found.">>})]
    ELSE [st |-> f.st, ui |-> AppWidgets(uiA, SentimentOptions(f.ret)),
          view |-> AppListing(apply_filters(f.ret, AppWidgets(uiA, SentimentOptions(f.ret))),
                              shown \cup AppErrs(f))]

RunApp(st, uiA, o, env, shown) ==
    AppRender(app_fetch_mentions(st, AppKey50, o, env), uiA, shown)

(***************************************************************************)
(* 1_mentions.py, "Metrics dashboard" and "Sentiment pie".                 *)
(***************************************************************************)
SumRisk(rows) ==
    LET F[i \in 0..Len(rows)] == IF i = 0 THEN 0 ELSE F[i - 1] + rows[i].risk_score
    IN F[Len(rows)]

CountWhere(rows, field, v) == Cardinality({i \in 1..Len(rows) : rows[i][field] = v})

UniqueSources(rows) == {rows[i].source : i \in 1..Len(rows)} \ {UnknownLower}

page_metrics(filtered_mentions) ==
    [total |-> Len(filtered_mentions),
     unique_sources |-> Cardinality(UniqueSources(filtered_mentions)),
     positive_count |-> CountWhere(filtered_mentions, "sentiment", "positive"),
     negative_count |-> CountWhere(filtered_mentions, "sentiment", "negative"),
     \* avg_risk as the fraction sum / max(total, 1)
     avg_risk |-> [num |-> SumRisk(filtered_mentions),
                   den |-> Max(Len(filtered_mentions), 1)],
     sentiment_counts |->
         [v \in {filtered_mentions[i].sentiment : i \in 1..Len(filtered_mentions)} |->
             CountWhere(filtered_mentions, "sentiment", v)]]

(***************************************************************************)
(* One run of 1_mentions.py from the filters on (lines 147-434), with no   *)
(* button pressed.  The debug checkbox of line 108 stays unchecked.        *)
(***************************************************************************)
PageDefaults ==
    [limit |-> DefaultLimit, opts |-> {}, sources |-> <<>>, sentiment |-> "All",
     flagged |-> FALSE]

FetchFailedMsg == Msg("Failed to fetch mentions: ", HttpErrorText)

\* lines 152-159: the widgets' values when the source options are `options`
PageWidgets(uiP, options) ==
    [uiP EXCEPT !.opts = options,
                !.sources = IF uiP.opts = options THEN uiP.sources ELSE <<>>]

\* st.error inside a cached function is stored with the entry and replayed
PageErrs(f1, f2) == IF f1.failed \/ f2.failed THEN {FetchFailedMsg} ELSE {}

\* lines 219-228
PageStopped(msgs) ==
    [script |-> "page", stopped |-> TRUE, listing |-> <<>>, filtered |-> <<>>,
     stats |-> [total |-> 0], served |-> {}, msgs |-> msgs]

\* line 231: filtered_mentions = mentions.copy()
filtered_mentions_of(mentions) == mentions

\* a variant whose metrics are computed from the list of line 151
PageView_metrics_of_line151(mentions100, filtered_mentions, msgs) ==
    [script |-> "page", stopped |-> FALSE,
     listing |-> filtered_mentions,
     filtered |-> filtered_mentions,
     stats |-> page_metrics(mentions100),
     served |-> {}, msgs |-> msgs]

\* lines 230-394: the metrics, the listing and the sentiment pie, all drawn
\* from filtered_mentions; mentions100 is the list of line 151
PageView(mentions100, filtered_mentions, msgs) ==
    [script |-> "page", stopped |-> FALSE,
     listing |-> filtered_mentions,
     filtered |-> filtered_mentions,
     stats |-> page_metrics(filtered_mentions),
     served |-> {}, msgs |-> msgs]

\* lines 219-434, after the fetches f1 of line 151 and f2 of line 217
PageRender(f1, f2, w, shown) ==
    IF f2.ret = <<>>
    THEN [st |-> f2.st, ui |-> w,
          view |-> PageStopped(shown \cup PageErrs(f1, f2) \cup {<<"No mentions found">>})]
    ELSE [st |-> f2.st, ui |-> w,
          view |-> PageView(f1.ret, filtered_mentions_of(f2.ret),
                            shown \cup PageErrs(f1, f2))]

\* lines 216-434, with the widgets' values w
PageFetch(f1, w, o2, env, shown) ==
    PageRender(f1,
               page_fetch_mentions(f1.st, PageKey(w.limit, w.sources, w.sentiment, w.flagged),
                                   o2, env),
               w, shown)

\* lines 152-434, after the sidebar's fetch f1 of line 151
PageMain(f1, uiP, o2, env, shown) ==
    PageFetch(f1, PageWidgets(uiP, UniqueSources(f1.ret)), o2, env, shown)

RunPage(st, uiP, o1, o2, env, shown) ==
    PageMain(page_fetch_mentions(st, PageKey100, o1, env), uiP, o2, env, shown)

Run(sc, st, u, o1, o2, env, shown) ==
    IF sc = "app" THEN RunApp(st, u, o1, env, shown)
    ELSE RunPage(st, u, o1, o2, env, shown)

(***************************************************************************)
(* The handlers of the mutating buttons: what each does to the caches once *)
(* its request has ended with outcome o, what it shows, and whether it     *)
(* ends in st.rerun().                                                     *)
(***************************************************************************)
\* a variant that empties the cache whatever the request's outcome
app_flag_handler_always_clears(st, fo) ==
    [st |-> app_clear(st, "flag"), ok |-> fo = "ok", posts |-> 1, rerun |-> fo = "ok",
     msgs |-> {IF fo = "ok" THEN Msg("Flagged: ", Urgent) ELSE Msg("Flag failed: ", <<"500">>)}]

\* app.py lines 213-230; fo is "ok" (status 200), "status" (another status)
\* or "exception" (the request raised)
app_flag_handler(st, fo) ==
    CASE fo = "ok" ->
            [st |-> app_clear(st, "flag"), ok |-> TRUE, posts |-> 1, rerun |-> TRUE,
             msgs |-> {Msg("Flagged: ", Urgent)}]
      [] fo = "status" ->
            [st |-> st, ok |-> FALSE, posts |-> 1, rerun |-> FALSE,
             msgs |-> {Msg("Flag failed: ", <<"500">>)}]
      [] OTHER ->
            [st |-> st, ok |-> FALSE, posts |-> 1, rerun |-> FALSE,
             msgs |-> {Msg("Flag error: ", TimeoutText)}]

\* 1_mentions.py lines 318-332; raise_for_status turns a status into an exception
page_flag_handler(st, fo) ==
    CASE fo = "ok" ->
            [st |-> cache_data_clear(st, "flag"), ok |-> TRUE, posts |-> 1,
             rerun |-> TRUE, msgs |-> {Msg("Flagged: ", Urgent)}]
      [] fo = "status" ->
            [st |-> st, ok |-> FALSE, posts |-> 1, rerun |-> FALSE,
             msgs |-> {Msg("Flag failed: ", HttpErrorText)}]
      [] OTHER ->
            [st |-> st, ok |-> FALSE, posts |-> 1, rerun |-> FALSE,
             msgs |-> {Msg("Flag failed: ", TimeoutText)}]

\* app.py lines 104-137; io is "success", "error_status" (a 200 whose status
\* is not "success", with a message), "http_error" or "timeout"
app_ingest_handler(st, keywords, io) ==
    CASE keywords = <<>> ->
            [st |-> st, ok |-> FALSE, posts |-> 0, rerun |-> FALSE,
             msgs |-> {<<"Please enter at least one keyword!">>}]
      [] io = "success" ->
            [st |-> app_clear(st, "kwingest"), ok |-> TRUE, posts |-> 1,
             rerun |-> TRUE, msgs |-> {<<"Fetched articles">>}]
      [] io = "error_status" ->
            [st |-> st, ok |-> FALSE, posts |-> 1, rerun |-> FALSE,
             msgs |-> {Msg("Ingest failed: ", BackendMessage)}]
      [] io = "timeout" ->
            [st |-> st, ok |-> FALSE, posts |-> 1, rerun |-> FALSE,
             msgs |-> {<<"Request timed out. Try fewer keywords or lower limit.">>}]
      [] OTHER ->
            [st |-> st, ok |-> FALSE, posts |-> 1, rerun |-> FALSE,
             msgs |-> {Msg("Fetch failed: ", HttpErrorText)}]

\* 1_mentions.py lines 68-83: the parsed answer, or None with an st.error
ingest_by_keywords(io) ==
    CASE io = "success" -> [result |-> [status |-> "success", inserted |-> 1], msgs |-> {}]
      [] io = "error_status" ->
            [result |-> [status |-> "error", message |-> BackendMessage], msgs |-> {}]
      [] io = "timeout" ->
            [result |-> EmptyDict, msgs |-> {Msg("Keyword ingest failed: ", TimeoutText)}]
      [] OTHER ->
            [result |-> EmptyDict, msgs |-> {Msg("Keyword ingest failed: ", HttpErrorText)}]

\* 1_mentions.py lines 135-143, with r what ingest_by_keywords returned; a
\* None result is the empty dictionary here
page_ingest_result(st, r) ==
    IF r.result # EmptyDict /\ Get(r.result, "status", "") = "success"
    THEN [st |-> cache_data_clear(st, "kwingest"), ok |-> TRUE, posts |-> 1,
          rerun |-> TRUE, msgs |-> {<<"Fetched articles">>}]
    ELSE [st |-> st, ok |-> FALSE, posts |-> 1, rerun |-> FALSE,
          msgs |-> r.msgs \cup {<<"Fetch failed!">>}]

\* 1_mentions.py lines 131-145
page_ingest_handler(st, keywords, io) ==
    IF keywords = <<>>
    THEN [st |-> st, ok |-> FALSE, posts |-> 0, rerun |-> FALSE,
          msgs |-> {<<"Enter at least one keyword!">>}]
    ELSE page_ingest_result(st, ingest_by_keywords(io))

\* the message a keyword ingest's answer carries, if any
IngestMessage(io) == IF io = "error_status" THEN BackendMessage ELSE Empty

\* the backend after a successful ingest: the next missing mention exists
Ingested(present) ==
    IF Mentions \ present = {} THEN present
    ELSE present \cup {MinOf(Mentions \ present)}

(***************************************************************************)
(* The state machine: one action per user interaction.  Streamlit runs the *)
(* script of the current page from the top on every interaction, and a     *)
(* handler that ends in st.rerun() starts the next run at once, so an      *)
(* action is the run with the pressed button together with the run that    *)
(* st.rerun() starts.                                                      *)
(***************************************************************************)
Outcomes == {"ok", "fail"}

FlagOutcomes == {"ok", "status", "exception"}

IngestOutcomes == {"success", "error_status", "http_error", "timeout"}

Scripts == {"app", "page"}

KeywordChoices == {<<>>, <<"AI">>}

\* settings of 1_mentions.py's filter widgets
PageFilterChoices ==
    {[sources |-> <<>>, sentiment |-> "All", flagged |-> FALSE],
     [sources |-> <<SrcA>>, sentiment |-> "Positive", flagged |-> TRUE]}

Env == [present |-> dbPresent, flagged |-> dbFlagged, mode |-> backend.mode]

\* the outcome of a GET /api/mentions issued now
GetOutcome == IF backend.up THEN "ok" ELSE "fail"

\* the outcomes a POST issued now can have
FlagOutcomesNow == IF backend.up THEN FlagOutcomes ELSE {"exception"}

IngestOutcomesNow == IF backend.up THEN IngestOutcomes ELSE {"http_error", "timeout"}

PostOutcomesNow == IF backend.up THEN Outcomes ELSE {"fail"}

St ==
    [app |-> appCache, page |-> pageCache, winApp |-> win.app, winPage |-> win.page,
     log |-> {}]

Snap(st) == [app |-> st.app, page |-> st.page]

NoSnap == [app |-> NoEntries, page |-> NoEntries]

\* history of a click: the handler's result h, the caches before the handler
\* ran (kept for a request that failed), the message the backend answered
Op(kind, h, snap, msg) ==
    [kind |-> kind, ok |-> h.ok, posts |-> h.posts, report |-> h.msgs,
     snap |-> IF h.ok \/ h.posts = 0 THEN NoSnap ELSE snap, msg |-> msg]

NoHandler == [ok |-> TRUE, posts |-> 0, msgs |-> {}]

NoOp == Op("none", NoHandler, NoSnap, Empty)

Defaults(sc) == IF sc = "page" THEN PageDefaults ELSE AppDefaults

\* the state after script sc has run with result r
Commit(sc, r, op) ==
    /\ script' = sc
    /\ appCache' = r.st.app
    /\ pageCache' = r.st.page
    /\ win' = [app |-> r.st.winApp, page |-> r.st.winPage]
    /\ ui' = r.ui
    /\ view' = [r.view EXCEPT !.served = r.st.log]
    /\ lastOp' = op

\* the run r1 when its handler h did not end in st.rerun()
NoRerun(r1, h) == [r1 EXCEPT !.st = h.st, !.view.msgs = @ \cup h.msgs]

\* the rows of a listing whose buttons carry the id
RowsWithId(listing, id) == {i \in 1..Len(listing) : listing[i].id = id}

\* of those, the rows that show a Flag button in 1_mentions.py (lines 316-318)
UnflaggedRowsWithId(listing, id) == {i \in RowsWithId(listing, id) : ~listing[i].flagged}

BlankView ==
    [script |-> "none", stopped |-> TRUE, listing |-> <<>>, filtered |-> <<>>,
     stats |-> [total |-> 0], served |-> {}, msgs |-> {}]

Init ==
    /\ appCache = NoEntries
    /\ pageCache = NoEntries
    /\ dbPresent = 1..(NumMentions - 1)
    /\ dbFlagged = {}
    /\ backend \in [mode : {"honour", "ignore"}, up : {TRUE}]
    /\ script = "none"
    /\ ui = AppDefaults
    /\ view = BlankView
    /\ lastOp = NoOp
    /\ win = [app |-> NoEntries, page |-> NoEntries]
    /\ arg = <<>>
    /\ res = <<>>

\* The clock advances by TickStep seconds.  The TTL cache drops an expired
\* entry at its next access, which no call can tell from dropping it when
\* it expires.
Older(cache) ==
    [k \in {x \in DOMAIN cache : cache[x].age + TickStep < TTL} |->
        [cache[k] EXCEPT !.age = @ + TickStep]]

Tick ==
    /\ appCache' = Older(appCache)
    /\ pageCache' = Older(pageCache)
    /\ win' = [app |-> Older(win.app), page |-> Older(win.page)]
    /\ lastOp' = NoOp
    /\ UNCHANGED <<dbPresent, dbFlagged, backend, script, ui, view, arg, res>>

\* the backend goes down or comes back
BackendToggle ==
    /\ backend' = [backend EXCEPT !.up = ~@]
    /\ UNCHANGED <<appCache, pageCache, dbPresent, dbFlagged, script, ui, view,
                   lastOp, win, arg, res>>

\* the user opens a page of the application: its script runs with its
\* widgets at their defaults
Open(to) ==
    /\ to # script
    /\ Commit(to, Run(to, St, Defaults(to), GetOutcome, GetOutcome, Env, {}), NoOp)
    /\ UNCHANGED <<dbPresent, dbFlagged, backend, arg, res>>

Navigate == \E to \in Scripts : Open(to)

OpenPage == Open("page")

\* 1_mentions.py lines 153-159: the user changes a sidebar filter
PageSetFilter ==
    \E c \in PageFilterChoices :
        /\ script = "page"
        /\ \A i \in 1..Len(c.sources) : c.sources[i] \in ui.opts
        /\ Commit("page",
                  RunPage(St, [ui EXCEPT !.sources = c.sources, !.sentiment = c.sentiment,
                                         !.flagged = c.flagged],
                          GetOutcome, GetOutcome, Env, {}),
                  NoOp)
        /\ UNCHANGED <<dbPresent, dbFlagged, backend, arg, res>>

\* the articles POST /api/flag?article_id= marks
FlagTargets(article_id) == {ArticleId(m) : m \in {x \in dbPresent : ArticleId(x) = article_id}}

\* the flagged articles after the handler's request for the row's article
FlaggedAfter(h, row) ==
    IF h.ok THEN dbFlagged \cup FlagTargets(row.article_id) ELSE dbFlagged

\* the Flag button of `row` was pressed in the run r1 of script sc, and its
\* handler returned h
FlagClick(sc, r1, row, h) ==
    /\ dbFlagged' = FlaggedAfter(h, row)
    /\ IF h.rerun
       THEN Commit(sc,
                   Run(sc, h.st, r1.ui, GetOutcome, GetOutcome,
                       [Env EXCEPT !.flagged = FlaggedAfter(h, row)], {}),
                   Op("flag", h, Snap(r1.st), Empty))
       ELSE Commit(sc, NoRerun(r1, h), Op("flag", h, Snap(r1.st), Empty))

\* the run r1 of app.py in which the Flag button with this id was pressed
AppFlagRun(id, fo, r1) ==
    IF RowsWithId(r1.view.listing, id) = {}
    THEN /\ Commit("app", r1, NoOp)
         /\ UNCHANGED dbFlagged
    ELSE FlagClick("app", r1, r1.view.listing[MinOf(RowsWithId(r1.view.listing, id))],
                   app_flag_handler(r1.st, fo))

\* app.py lines 213-230: the Flag button of a listed row
AppFlag ==
    \E id \in Mentions, fo \in FlagOutcomesNow :
        /\ script = "app"
        /\ RowsWithId(view.listing, id) # {}
        /\ AppFlagRun(id, fo, RunApp(St, ui, GetOutcome, Env, {}))
        /\ UNCHANGED <<dbPresent, backend, arg, res>>

\* the run r1 of 1_mentions.py in which the Flag button with this id was pressed
PageFlagRun(id, fo, r1) ==
    IF UnflaggedRowsWithId(r1.view.listing, id) = {}
    THEN /\ Commit("page", r1, NoOp)
         /\ UNCHANGED dbFlagged
    ELSE FlagClick("page", r1,
                   r1.view.listing[MinOf(UnflaggedRowsWithId(r1.view.listing, id))],
                   page_flag_handler(r1.st, fo))

\* 1_mentions.py lines 316-332: the Flag button of a listed, unflagged row
PageFlag ==
    \E id \in Mentions, fo \in FlagOutcomesNow :
        /\ script = "page"
        /\ UnflaggedRowsWithId(view.listing, id) # {}
        /\ PageFlagRun(id, fo, RunPage(St, ui, GetOutcome, GetOutcome, Env, {}))
        /\ UNCHANGED <<dbPresent, backend, arg, res>>

\* the mentions that exist after the handler's ingest request
PresentAfter(h) == IF h.ok THEN Ingested(dbPresent) ELSE dbPresent

\* FETCH BY KEYWORDS was pressed in script sc and its handler, which runs
\* before the script's first fetch, returned h
IngestClick(sc, h, io) ==
    /\ dbPresent' = PresentAfter(h)
    /\ Commit(sc,
              Run(sc, h.st, ui, GetOutcome, GetOutcome,
                  [Env EXCEPT !.present = PresentAfter(h)],
                  IF h.rerun THEN {} ELSE h.msgs),
              Op("kwingest", h, Snap(St), IngestMessage(io)))

\* app.py lines 104-137: FETCH BY KEYWORDS, handled before the fetch of line 140
AppKeywordIngest ==
    \E kws \in KeywordChoices, io \in IngestOutcomesNow :
        /\ script = "app"
        /\ IngestClick("app", app_ingest_handler(St, kws, io), io)
        /\ UNCHANGED <<dbFlagged, backend, arg, res>>

\* 1_mentions.py lines 131-145: FETCH BY KEYWORDS, handled before the fetch of line 151
PageKeywordIngest ==
    \E kws \in KeywordChoices, io \in IngestOutcomesNow :
        /\ script = "page"
        /\ IngestClick("page", page_ingest_handler(St, kws, io), io)
        /\ UNCHANGED <<dbFlagged, backend, arg, res>>

\* 1_mentions.py lines 160-162: Refresh Data, handled after the fetch of line 151
PageRefresh ==
    /\ script = "page"
    /\ Commit("page",
              RunPage(cache_data_clear(page_fetch_mentions(St, PageKey100, GetOutcome, Env).st,
                                       "refresh"),
                      ui, GetOutcome, GetOutcome, Env, {}),
              NoOp)
    /\ UNCHANGED <<dbPresent, dbFlagged, backend, arg, res>>

\* an ingest button was pressed in the run whose sidebar fetch returned f1
PageIngestClick(io, f1) ==
    IF io = "ok"
    THEN /\ dbPresent' = Ingested(dbPresent)
         /\ Commit("page",
                   RunPage(cache_data_clear(f1.st, "ingest"), ui, GetOutcome, GetOutcome,
                           [Env EXCEPT !.present = Ingested(dbPresent)], {}),
                   NoOp)
    ELSE /\ dbPresent' = dbPresent
         /\ Commit("page",
                   PageMain(f1, ui, GetOutcome, Env, {Msg("Ingest failed: ", HttpErrorText)}),
                   NoOp)

\* 1_mentions.py lines 166-200: Ingest Demo Data and Legacy Google News
PageIngestButton ==
    \E io \in PostOutcomesNow :
        /\ script = "page"
        /\ PageIngestClick(io, page_fetch_mentions(St, PageKey100, GetOutcome, Env))
        /\ UNCHANGED <<dbFlagged, backend, arg, res>>

(***************************************************************************)
(* Spec: the whole application, both scripts, with 1_mentions.py's filter  *)
(* widgets left as they are when the page opens.                           *)
(***************************************************************************)
Next ==
    \/ Tick
    \/ BackendToggle
    \/ Navigate
    \/ AppFlag
    \/ PageFlag
    \/ AppKeywordIngest
    \/ PageKeywordIngest
    \/ PageRefresh
    \/ PageIngestButton

Spec == Init /\ [][Next]_vars

(***************************************************************************)
(* SpecPage: a session that stays on 1_mentions.py and uses its filters.   *)
(***************************************************************************)
NextPage ==
    \/ Tick
    \/ BackendToggle
    \/ OpenPage
    \/ PageSetFilter
    \/ PageFlag
    \/ PageKeywordIngest
    \/ PageRefresh
    \/ PageIngestButton

SpecPage == Init /\ [][NextPage]_vars

(***************************************************************************)
(* SpecSuggest: a session of both scripts in which the user presses the    *)
(* Suggest journalist buttons.  so is the outcome of GET /api/match:       *)
(* "matches" (a 200 with a non-empty list), "empty" (a 200 with []),       *)
(* "status" (another status) or "exception" (the request raised).          *)
(***************************************************************************)
SuggestOutcomes == {"matches", "empty", "status", "exception"}

SuggestOutcomesNow == IF backend.up THEN SuggestOutcomes ELSE {"exception"}

NoJournalists == <<"No journalists found in database">>

\* a variant that empties the cache as the Flag handler does
app_suggest_handler_clears(st, so) ==
    [st |-> app_clear(st, "suggest"), ok |-> so \in {"matches", "empty"}, posts |-> 0,
     rerun |-> FALSE,
     msgs |-> {IF so \in {"matches", "empty"} THEN NoJournalists
               ELSE Msg("Suggestion failed: ", <<"500">>)}]

\* app.py lines 234-256
app_suggest_handler(st, so) ==
    CASE so = "matches" ->
            [st |-> st, ok |-> TRUE, posts |-> 0, rerun |-> FALSE,
             msgs |-> {<<"Top Journalist Matches">>}]
      [] so = "empty" ->
            [st |-> st, ok |-> TRUE, posts |-> 0, rerun |-> FALSE,
             msgs |-> {NoJournalists}]
      [] so = "status" ->
            [st |-> st, ok |-> FALSE, posts |-> 0, rerun |-> FALSE,
             msgs |-> {Msg("Suggestion failed: ", <<"500">>)}]
      [] OTHER ->
            [st |-> st, ok |-> FALSE, posts |-> 0, rerun |-> FALSE,
             msgs |-> {Msg("Suggestion error: ", TimeoutText)}]

\* 1_mentions.py lines 334-351; raise_for_status turns a status into an
\* exception
page_suggest_handler(st, so) ==
    CASE so = "matches" ->
            [st |-> st, ok |-> TRUE, posts |-> 0, rerun |-> FALSE,
             msgs |-> {<<"Top Journalist Matches">>}]
      [] so = "empty" ->
            [st |-> st, ok |-> TRUE, posts |-> 0, rerun |-> FALSE,
             msgs |-> {NoJournalists}]
      [] so = "status" ->
            [st |-> st, ok |-> FALSE, posts |-> 0, rerun |-> FALSE,
             msgs |-> {Msg("Suggestion failed: ", HttpErrorText)}]
      [] OTHER ->
            [st |-> st, ok |-> FALSE, posts |-> 0, rerun |-> FALSE,
             msgs |-> {Msg("Suggestion failed: ", TimeoutText)}]

\* history of a click on Suggest: the handler's result h, the caches before
\* the handler ran, the outcome of the request
SuggestOp(h, snap, so) ==
    [kind |-> "suggest", ok |-> h.ok, posts |-> h.posts, report |-> h.msgs,
     snap |-> snap, msg |-> <<so>>]

\* the Suggest button of a row was pressed in the run r1 of script sc, and
\* its handler returned h; no handler ends in st.rerun()
SuggestClick(sc, r1, h, so) == Commit(sc, NoRerun(r1, h), SuggestOp(h, Snap(r1.st), so))

\* the run r1 of app.py in which the Suggest button with this id was pressed
AppSuggestRun(id, so, r1) ==
    IF RowsWithId(r1.view.listing, id) = {}
    THEN Commit("app", r1, NoOp)
    ELSE SuggestClick("app", r1, app_suggest_handler(r1.st, so), so)

\* app.py lines 234-256: the Suggest journalist button of a listed row
AppSuggest ==
    \E id \in Mentions, so \in SuggestOutcomesNow :
        /\ script = "app"
        /\ RowsWithId(view.listing, id) # {}
        /\ AppSuggestRun(id, so, RunApp(St, ui, GetOutcome, Env, {}))
        /\ UNCHANGED <<dbPresent, dbFlagged, backend, arg, res>>

\* the run r1 of 1_mentions.py in which the Suggest button with this id was
\* pressed
PageSuggestRun(id, so, r1) ==
    IF RowsWithId(r1.view.listing, id) = {}
    THEN Commit("page", r1, NoOp)
    ELSE SuggestClick("page", r1, page_suggest_handler(r1.st, so), so)

\* 1_mentions.py lines 334-351: the Suggest Journalist button of a listed row
PageSuggest ==
    \E id \in Mentions, so \in SuggestOutcomesNow :
        /\ script = "page"
        /\ RowsWithId(view.listing, id) # {}
        /\ PageSuggestRun(id, so, RunPage(St, ui, GetOutcome, GetOutcome, Env, {}))
        /\ UNCHANGED <<dbPresent, dbFlagged, backend, arg, res>>

NextSuggest ==
    \/ Tick
    \/ BackendToggle
    \/ Navigate
    \/ AppSuggest
    \/ PageSuggest

SpecSuggest == Init /\ [][NextSuggest]_vars

(***************************************************************************)
(* The pure-function specifications: the main variables are parked, arg is *)
(* the input and res the result.                                           *)
(***************************************************************************)
Parked ==
    /\ appCache = NoEntries
    /\ pageCache = NoEntries
    /\ dbPresent = {}
    /\ dbFlagged = {}
    /\ backend = [mode |-> "honour", up |-> TRUE]
    /\ script = "none"
    /\ ui = AppDefaults
    /\ view = BlankView
    /\ lastOp = NoOp
    /\ win = [app |-> NoEntries, page |-> NoEntries]

mainVars ==
    <<appCache, pageCache, dbPresent, dbFlagged, backend, script, ui, view, lastOp, win>>

BoundedSeq(S, n) == UNION {[1..k -> S] : k \in 0..n}

(***************************************************************************)
(* SpecFilter: app.py's "Apply filters" on DataFrames of up to MaxRows     *)
(* rows, applied to its own result a second time.                          *)
(***************************************************************************)
\* mentions as the backend may send them: complete ones, one with a null
\* summary, one with nothing but an id
RawChoices ==
    {RawMention(1, {}), RawMention(2, {}),
     [id |-> 3, article |-> [source |-> SrcA], summary |-> None, sentiment |-> "neutral"],
     [id |-> 4]}

\* the rows of the DataFrame of line 148
RowChoices == {app_normalize(d) : d \in RawChoices}

\* values of the widgets of lines 153-155
FilterChoices ==
    [sentiment : {{}, {"positive"}, {"positive", "neutral"}},
     source_q : {Empty, <<"A">>, <<".">>},
     query : {Empty, <<"b">>}]

InitFilter ==
    /\ Parked
    /\ arg \in [rows : BoundedSeq(RowChoices, MaxRows), f : FilterChoices]
    /\ res = [n |-> 0, rows |-> arg.rows, prev |-> <<>>]

ApplyFilters ==
    /\ res.n < 2
    /\ res' = [n |-> res.n + 1, rows |-> apply_filters(res.rows, arg.f), prev |-> res.rows]
    /\ UNCHANGED <<mainVars, arg>>

SpecFilter == InitFilter /\ [][ApplyFilters]_vars

(***************************************************************************)
(* SpecPaginate: app.py's "Pagination controls" on a filtered DataFrame of *)
(* up to MaxPageRows rows, with the page the user asks for.                *)
(***************************************************************************)
\* the slices of pages 1..max_page, one after the other
AllPages(rows, per_page) ==
    LET mp == max_page(Len(rows), per_page)
        F[p \in 0..mp] ==
            IF p = 0 THEN <<>> ELSE F[p - 1] \o paginate(rows, per_page, p).rows
    IN [max_page |-> mp, rows |-> F[mp]]

InitPaginate ==
    /\ Parked
    /\ \E n \in 0..MaxPageRows, per_page \in PerPageOptions, req \in (-1)..MaxPageReq :
          arg = [rows |-> [i \in 1..n |-> i], per_page |-> per_page, req |-> req]
    /\ res = [kind |-> "none"]

ShowPage ==
    /\ res.kind = "none"
    /\ LET pg == paginate(arg.rows, arg.per_page, arg.req)
       IN res' = [kind |-> "page", max_page |-> pg.max_page, page |-> pg.page,
                  rows |-> pg.rows]
    /\ UNCHANGED <<mainVars, arg>>

ShowAllPages ==
    /\ res.kind = "none"
    /\ LET all == AllPages(arg.rows, arg.per_page)
       IN res' = [kind |-> "all", max_page |-> all.max_page, rows |-> all.rows]
    /\ UNCHANGED <<mainVars, arg>>

NextPaginate == ShowPage \/ ShowAllPages

SpecPaginate == InitPaginate /\ [][NextPaginate]_vars

(***************************************************************************)
(* SpecResponse: one run of each script over a 200 answer of GET           *)
(* /api/mentions that holds up to MaxData records, among them records the  *)
(* backend's contract does not promise.                                    *)
(***************************************************************************)
WholeArticle == [title |-> <<"A">>, link |-> MentionLink(1), source |-> SrcA]

\* records as the backend may send them: complete ones, one with nothing but
\* an id, one with a null article, one with a null summary, one with null
\* numbers, one without an id
ResponseChoices ==
    {RawMention(1, {}), RawMention(2, {}),
     [id |-> 3],
     [id |-> 4, article |-> NullArticle, summary |-> <<"a">>, sentiment |-> "neutral"],
     [id |-> 5, article |-> WholeArticle, summary |-> None, sentiment |-> "neutral"],
     [id |-> 6, article |-> WholeArticle, summary |-> <<"a">>, sentiment |-> "neutral",
      sentiment_confidence |-> NullNumber, risk_score |-> NullNumber],
     [article |-> WholeArticle, summary |-> <<"a">>, sentiment |-> "neutral"]}

\* the rows at which st.button raises DuplicateWidgetID: a row whose key
\* f"flag-{id}" or f"suggest-{id}" an earlier row of the run has registered
DuplicateWidgetID(rows) ==
    {j \in 1..Len(rows) : \E i \in 1..(j - 1) : rows[i].id = rows[j].id}

\* app.py lines 157-177 with the widgets at their defaults: the rows of
\* page_df
app_page_df(df) ==
    paginate(apply_filters(df, AppWidgets(AppDefaults, SentimentOptions(df))),
             DefaultPerPage, 1).rows

\* app.py line 207: f"{risk_score:.1f}" raises TypeError on None.  A null
\* in a DataFrame column that also holds numbers is NaN, which the format
\* accepts; a column of nothing but nulls keeps None.
app_format_raises(df) == \A i \in 1..Len(df) : df[i].risk_score = NullNumber

\* app.py lines 180-259 over the rows of page_df: how the loop ends
app_listing_outcome(df, page_rows_df) ==
    IF page_rows_df # <<>> /\ app_format_raises(df) THEN "TypeError"
    ELSE IF DuplicateWidgetID(page_rows_df) # {} THEN "DuplicateWidgetID"
    ELSE "listed"

\* app.py lines 144-262, with mentions the value of line 140
app_render_outcome(mentions) ==
    IF mentions = <<>> THEN "stopped"
    ELSE app_listing_outcome(mentions, app_page_df(mentions))

\* 1_mentions.py line 241: sum() raises TypeError on a None risk_score
avg_risk_raises(filtered_mentions) ==
    \E i \in 1..Len(filtered_mentions) : filtered_mentions[i].risk_score = NullNumber

\* 1_mentions.py line 310: f"{sentiment_confidence:.2f}" raises TypeError on
\* None; the rows at which it does
page_format_raises(rows) ==
    {i \in 1..Len(rows) : rows[i].sentiment_confidence = NullNumber}

\* 1_mentions.py lines 261-352: how the loop ends, the format of line 310
\* coming before the buttons of lines 318 and 334 in each row
page_listing_outcome(rows) ==
    IF page_format_raises(rows) \cup DuplicateWidgetID(rows) = {} THEN "listed"
    ELSE IF MinOf(page_format_raises(rows) \cup DuplicateWidgetID(rows))
                \in page_format_raises(rows)
    THEN "TypeError"
    ELSE "DuplicateWidgetID"

\* 1_mentions.py lines 219-434, with mentions the value of line 217
page_render_outcome(mentions) ==
    IF mentions = <<>> THEN "stopped"
    ELSE IF avg_risk_raises(filtered_mentions_of(mentions)) THEN "TypeError"
    ELSE page_listing_outcome(filtered_mentions_of(mentions))

InitResponse ==
    /\ Parked
    /\ arg \in [data : BoundedSeq(ResponseChoices, MaxData)]
    /\ res = [kind |-> "none"]

\* app.py lines 140-262 on an empty cache, the GET answering arg.data
AppShow ==
    /\ res.kind = "none"
    /\ res' = [kind |-> "app", ret |-> app_fetch_data(arg.data).ret,
               failed |-> app_fetch_data(arg.data).failed,
               render |-> app_render_outcome(app_fetch_data(arg.data).ret)]
    /\ UNCHANGED <<mainVars, arg>>

\* 1_mentions.py lines 217-434 on an empty cache, the GET answering arg.data
PageShow ==
    /\ res.kind = "none"
    /\ res' = [kind |-> "page", ret |-> page_fetch_data(arg.data).ret,
               failed |-> page_fetch_data(arg.data).failed,
               render |-> page_render_outcome(page_fetch_data(arg.data).ret)]
    /\ UNCHANGED <<mainVars, arg>>

NextResponse == AppShow \/ PageShow

SpecResponse == InitResponse /\ [][NextResponse]_vars

(***************************************************************************)
(* SpecSource: 1_mentions.py's normalization of one record whose article   *)
(* names no source, over the links scheme + host + path with hosts of up   *)
(* to MaxHost characters.                                                  *)
(***************************************************************************)
HostChars == {"w", ".", "e"}

Www == <<"w", "w", "w", ".">>

\* the link of the article: absent, null, or the text scheme + host + path
LinkChoices ==
    [kind : {"absent", "null"}, scheme : {Empty}, host : {Empty}, path : {Empty}]
    \cup [kind : {"text"}, scheme : {Empty, HttpsPrefix},
          host : BoundedSeq(HostChars, MaxHost), path : {Empty, <<"/", "x">>}]

LinkText(l) == l.scheme \o l.host \o l.path

\* the article object: its source is absent or the empty string
ArticleOf(l, src) ==
    CASE l.kind = "absent" -> IF src = "absent" THEN EmptyDict ELSE [source |-> Empty]
      [] l.kind = "null" ->
            IF src = "absent" THEN [link |-> None] ELSE [source |-> Empty, link |-> None]
      [] OTHER ->
            IF src = "absent" THEN [link |-> LinkText(l)]
            ELSE [source |-> Empty, link |-> LinkText(l)]

InitSource ==
    /\ Parked
    /\ arg \in [link : LinkChoices, source : {"absent", "empty"}]
    /\ res = [kind |-> "none"]

\* lines 44-47 on the record {"id": 1, "article": ArticleOf(...)}
NormalizeSource ==
    /\ res.kind = "none"
    /\ res' = [kind |-> "page",
               source |-> page_normalize([id |-> 1,
                                          article |-> ArticleOf(arg.link, arg.source)]).source]
    /\ UNCHANGED <<mainVars, arg>>

SpecSource == InitSource /\ [][NormalizeSource]_vars

(***************************************************************************)
(* Properties.                                                             *)
(***************************************************************************)
FnCache(fn) == IF fn = "app" THEN appCache ELSE pageCache

\* C1: calls of fetch_mentions with one query made less than TTL seconds
\* after the call that stored the query's entry, with no clear in between,
\* are answered from that entry: the window of the query has seen exactly
\* one GET, and the entry stored when the window opened is still there.
C1_OneGetPerWindow ==
    \A fn \in {"app", "page"} :
        \A k \in DOMAIN win[fn] :
            /\ win[fn][k].gets = 1
            /\ k \in DOMAIN FnCache(fn)
            /\ FnCache(fn)[k].age = win[fn][k].age

\* a run in which a call was answered, without a GET, from an entry stored
\* TickStep seconds earlier
C1_Witness == \E e \in view.served : e.net = 0 /\ e.age > 0

\* C2: a failed fetch stores no cache entry, so that the next fetch of the
\* query within the TTL goes to the backend again.
C2_FailureNotCached ==
    \A fn \in {"app", "page"} :
        \A k \in DOMAIN FnCache(fn) : ~FnCache(fn)[k].failed

\* C3: once a flag request for an article has succeeded, no listing shows a
\* record of that article as unflagged or without the reason.
C3_NoUnflaggedRead ==
    \A i \in 1..Len(view.listing) :
        view.listing[i].article_id \in dbFlagged =>
            /\ view.listing[i].flagged
            /\ view.listing[i].flag_reason = Urgent

\* C4: a click on Flag whose request failed issued one request and left
\* both function caches exactly as they were before the handler ran.
C4_FailedFlagKeepsCache ==
    (lastOp.kind = "flag" /\ ~lastOp.ok) =>
        /\ lastOp.posts = 1
        /\ appCache = lastOp.snap.app
        /\ pageCache = lastOp.snap.page

\* a failed flag with entries in both function caches
C4_Witness ==
    /\ lastOp.kind = "flag"
    /\ ~lastOp.ok
    /\ AppKey50 \in DOMAIN appCache
    /\ PageKey100 \in DOMAIN pageCache
    /\ \E i \in 1..Len(appCache[AppKey50].val) : ~appCache[AppKey50].val[i].flagged

\* C5: no cache entry stored before a successful keyword ingest is still
\* there to answer a fetch after it.
C5_IngestDropsEveryEntry ==
    \A fn \in {"app", "page"} :
        \A k \in DOMAIN FnCache(fn) : FnCache(fn)[k].pre = {}

EndsWith(text, suffix) ==
    /\ Len(text) >= Len(suffix)
    /\ SubSeq(text, Len(text) - Len(suffix) + 1, Len(text)) = suffix

\* every entry of the snapshot is still stored, unchanged
Kept(snap, cache) == \A k \in DOMAIN snap : k \in DOMAIN cache /\ cache[k] = snap[k]

\* C6: a keyword ingest that failed issued one request, kept every cache
\* entry, and, when the backend answered with a message, reported a text
\* that carries that message.
C6_FailedIngestReportsMessage ==
    (lastOp.kind = "kwingest" /\ ~lastOp.ok /\ lastOp.posts > 0) =>
        /\ lastOp.posts = 1
        /\ Kept(lastOp.snap.app, appCache)
        /\ Kept(lastOp.snap.page, pageCache)
        /\ lastOp.msg # Empty => \E t \in lastOp.report : EndsWith(t, lastOp.msg)

Ceil(n, d) == (n + d - 1) \div d

\* C7: max_page is max(1, ceil(len/per_page)); the page used is the request
\* clamped into 1..max_page; the slice is the rows at 0-based positions
\* (page-1)*per_page .. page*per_page - 1 that exist; and the slices of pages
\* 1..max_page, one after the other, are the DataFrame itself.
C7_Pagination ==
    LET n == Len(arg.rows)
        P == arg.per_page
        mp == Max(1, Ceil(n, P))
    IN /\ res.kind = "page" =>
            /\ res.max_page = mp
            /\ res.page \in 1..mp
            /\ arg.req \in 1..mp => res.page = arg.req
            /\ arg.req < 1 => res.page = 1
            /\ arg.req > mp => res.page = mp
            /\ LET lo == (res.page - 1) * P
                   hi == Min(res.page * P, n)
               IN /\ Len(res.rows) = Max(0, hi - lo)
                  /\ \A i \in 1..Len(res.rows) : res.rows[i] = arg.rows[lo + i]
       /\ res.kind = "all" => res.rows = arg.rows

\* a request past the last page, answered with a last page that is not full
C7_Witness ==
    /\ res.kind = "page"
    /\ res.max_page >= 2
    /\ arg.req > res.max_page
    /\ Len(res.rows) \in 1..(arg.per_page - 1)

\* s is t restricted to the positions S, in order
Restrict(t, S) ==
    LET F[i \in 0..Len(t)] ==
            IF i = 0 THEN <<>>
            ELSE IF i \in S THEN Append(F[i - 1], t[i]) ELSE F[i - 1]
    IN F[Len(t)]

IsSubseq(s, t) == \E S \in SUBSET (1..Len(t)) : s = Restrict(t, S)

C9_ShownSatisfyFilters ==
    (view.script = "page" /\ ~view.stopped) =>
        \A i \in 1..Len(view.listing) :
            LET m == view.listing[i]
            IN /\ ui.sources # <<>> =>
                      m.source \in {ui.sources[j] : j \in 1..Len(ui.sources)}
               /\ ui.sentiment # "All" => m.sentiment = lower_word(ui.sentiment)
               /\ ui.flagged => m.flagged

\* C10: the metrics and the sentiment counts 1_mentions.py renders are those
\* of the records it lists.
C10_MetricsOfListing ==
    (view.script = "page" /\ ~view.stopped) =>
        LET L == view.listing
            idx == 1..Len(L)
            s == view.stats
        IN /\ s.total = Len(L)
           /\ s.unique_sources = Cardinality({L[i].source : i \in idx} \ {UnknownLower})
           /\ s.positive_count = Cardinality({i \in idx : L[i].sentiment = "positive"})
           /\ s.negative_count = Cardinality({i \in idx : L[i].sentiment = "negative"})
           /\ s.avg_risk = [num |-> SumRisk(L), den |-> Max(Len(L), 1)]
           /\ DOMAIN s.sentiment_counts = {L[i].sentiment : i \in idx}
           /\ \A v \in DOMAIN s.sentiment_counts :
                 s.sentiment_counts[v] = Cardinality({i \in idx : L[i].sentiment = v})

\* a render filtered to positive mentions that lists fewer records than the
\* limit=100 fetch of the sidebar returned
C10_Witness ==
    /\ view.script = "page"
    /\ ~view.stopped
    /\ ui.sentiment = "Positive"
    /\ PageKey100 \in DOMAIN pageCache
    /\ Len(view.listing) < Len(pageCache[PageKey100].val)
    /\ DOMAIN view.stats.sentiment_counts = {"positive"}
    /\ view.stats.total = Len(view.listing)

\* C11: normalization degrades per record: a fetch over a response returns,
\* in order, the normalized form of every record that can be normalized and
\* drops only the records that cannot (a null article, a null summary); a
\* record with merely missing fields is among those normalized.
C11_DegradesPerRecord ==
    /\ res.kind = "app" =>
           res.ret = app_rows(SelectSeq(arg.data, LAMBDA d : ~app_raises(d)))
    /\ res.kind = "page" =>
           res.ret = page_rows(SelectSeq(arg.data, LAMBDA m : ~page_raises(m)))

\* the host with one leading "www." label removed, and nothing else
WithoutWww(host) ==
    IF StartsWith(host, Www) THEN SubSeq(host, Len(Www) + 1, Len(host)) ELSE host

\* does the link have a host that can be parsed?
HasHost(l) == l.kind = "text" /\ l.scheme # Empty /\ l.host # Empty

\* C12: for a record whose article source is empty or absent, the normalized
\* source is the host of the link with exactly one leading "www." label
\* removed and nothing else removed, and is the literal "unknown" when the
\* link is absent or has no host.
C12_SourceIsHostWithoutWww ==
    res.kind = "page" =>
        res.source = IF HasHost(arg.link) THEN WithoutWww(arg.link.host)
                     ELSE UnknownLower

\* the entry of the query the last run of the script on view has listed
ShownEntry ==
    IF view.script = "app" THEN [cache |-> appCache, key |-> AppKey50]
    ELSE [cache |-> pageCache,
          key |-> PageKey(ui.limit, ui.sources, ui.sentiment, ui.flagged)]

\* C13: every render that shows the empty result a failed fetch produced,
\* the renders that read it from the cache within the TTL included, shows
\* the fetch error with it.
C13_EmptyOfFailureShowsError ==
    (/\ view.script \in {"app", "page"}
     /\ view.stopped
     /\ ShownEntry.key \in DOMAIN ShownEntry.cache
     /\ ShownEntry.cache[ShownEntry.key].failed)
        => FetchFailedMsg \in view.msgs

\* C14: a response in which two or more records carry the same id, records
\* with no id (all normalized to id 0) included, does not make a render
\* fail on its widget keys: the render over it does not end in
\* DuplicateWidgetID.
C14_DuplicateIdsRender ==
    (res.kind \in {"app", "page"} /\ DuplicateWidgetID(res.ret) # {})
        => res.render # "DuplicateWidgetID"

\* the texts with which the scripts report a failed suggestion
SuggestFailureTexts == {"Suggestion failed: ", "Suggestion error: "}

ReportsFailure(report) == \E m \in report : m[1] \in SuggestFailureTexts

\* C15: a click on Suggest, whatever the outcome of its request, leaves
\* both function caches exactly as they were before the handler ran and
\* issues no mutating request; an empty list of a successful response is
\* reported as "no journalists found" and not as a failure, a status or
\* transport failure is reported as a failure, and the report is on view.
C15_SuggestIsReadOnly ==
    lastOp.kind = "suggest" =>
        /\ appCache = lastOp.snap.app
        /\ pageCache = lastOp.snap.page
        /\ lastOp.posts = 0
        /\ lastOp.report \subseteq view.msgs
        /\ lastOp.msg = <<"empty">> =>
               lastOp.report = {NoJournalists} /\ ~ReportsFailure(view.msgs)
        /\ lastOp.msg = <<"matches">> => ~ReportsFailure(view.msgs)
        /\ lastOp.msg \in {<<"status">>, <<"exception">>} => ReportsFailure(lastOp.report)

\* a suggestion that found no journalist, made with entries in both caches
C15_Witness ==
    /\ lastOp.kind = "suggest"
    /\ lastOp.msg = <<"empty">>
    /\ appCache # NoEntries
    /\ pageCache # NoEntries
    /\ NoJournalists \in view.msgs

\* C16: a record whose risk_score or sentiment_confidence is null is
\* normalized to the default 0 in that field, so that no null reaches the
\* aggregation: avg_risk over the fetched result can be computed, and is 0
\* over no records.
C16_NoNullReachesAggregation ==
    /\ res.kind \in {"app", "page"} =>
           \A i \in 1..Len(res.ret) : res.ret[i].risk_score # NullNumber
    /\ res.kind = "page" =>
           /\ \A i \in 1..Len(res.ret) : res.ret[i].sentiment_confidence # NullNumber
           /\ ~avg_risk_raises(filtered_mentions_of(res.ret))
           /\ res.ret = <<>> => page_metrics(filtered_mentions_of(res.ret)).avg_risk.num = 0

====
